---- MODULE Spec2Model ----
(***************************************************************************)
(* pipette: a TCP-only L2/L3 proxy between a real segment (coprocessor     *)
(* port) and a fake one (fake port), written as a Ryu OpenFlow 1.3 app.    *)
(* The model holds the switch's flow tables, the last event the controller *)
(* handled, the commands that handler sent, the packets the switch emitted *)
(* and the commands still on their way to the switch.  MAC addresses are modelled by their last octet, IPv4          *)
(* addresses by their four octets, 32-bit OpenFlow reserved numbers by     *)
(* their two's-complement value.                                           *)
(***************************************************************************)
EXTENDS Integers, Sequences, FiniteSets, Bags, TLC

VARIABLES flows, dispatcher, ev, prev, sent, out, chan, mapped

vars == <<flows, dispatcher, ev, prev, sent, out, chan, mapped>>

----------------------------------------------------------------------------
(* Configuration, pipette.py lines 35-48 *)

COPROPORT == 1
FAKEPORT == 2
FAKESERVERMAC == 102
FAKECLIENTMAC == 103
VLAN == 2
NFVIP == [ip |-> <<192, 168, 101, 1>>, prefixlen |-> 24]
IDLE == 30

(* Numbers of the protocol libraries the source names *)

ETH_TYPE_IP == 2048
ETH_TYPE_ARP == 2054
ETH_TYPE_8021Q == 33024
IPPROTO_TCP == 6
IPPROTO_UDP == 17
ARP_REQUEST == 1
ARP_REPLY == 2
OFPVID_PRESENT == 4096
OFPP_CONTROLLER == -3
OFPP_ANY == -1
OFPG_ANY == -1
OFPTT_ALL == 255
OFP_NO_BUFFER == -1
OFP_DEFAULT_PRIORITY == 32768
EXACT == -1

----------------------------------------------------------------------------
(* Bounds of the model *)

MaxFlows == 2

(* The most packet-in handlers one run of SpecAsync starts *)
MaxHandlers == 2

----------------------------------------------------------------------------
(* Integer and address arithmetic *)

RECURSIVE BitAnd(_, _)
BitAnd(a, b) ==
    IF a = 0 \/ b = 0 THEN 0
    ELSE (a % 2) * (b % 2) + 2 * BitAnd(a \div 2, b \div 2)

RECURSIVE BitOr(_, _)
BitOr(a, b) ==
    IF a = 0 THEN b
    ELSE IF b = 0 THEN a
    ELSE (IF (a % 2) + (b % 2) > 0 THEN 1 ELSE 0) + 2 * BitOr(a \div 2, b \div 2)

RECURSIVE Pow2(_)
Pow2(n) == IF n = 0 THEN 1 ELSE 2 * Pow2(n - 1)

Min(a, b) == IF a < b THEN a ELSE b

Max(a, b) == IF a > b THEN a ELSE b

NoAddr == <<0, 0, 0, 0>>

AddrAnd(a, b) == [i \in 1..4 |-> BitAnd(a[i], b[i])]

AddrOr(a, b) == [i \in 1..4 |-> BitOr(a[i], b[i])]

(* ipaddress.ip_interface: netmask, hostmask and network address *)
netmask(iface) ==
    [i \in 1..4 |-> 256 - Pow2(8 - Min(8, Max(0, iface.prefixlen - 8 * (i - 1))))]

hostmask(iface) == [i \in 1..4 |-> 255 - netmask(iface)[i]]

network_address(iface) == AddrAnd(iface.ip, netmask(iface))

NFVIP_hostmask == hostmask(NFVIP)

NFVIP_network_address == network_address(NFVIP)

(* mutant: the real address is not masked to its host bits *)
src_ipv4_nat_of_NoHostmask(iface, ipv4_src) ==
    AddrOr(ipv4_src, network_address(iface))

(* mutant: the real address is masked to its network bits *)
src_ipv4_nat_of_Netmask(iface, ipv4_src) ==
    AddrOr(AddrAnd(ipv4_src, netmask(iface)), network_address(iface))

(* lines 159-160, for the interface the environment configures as NFVIP *)
src_ipv4_nat_of(iface, ipv4_src) ==
    AddrOr(AddrAnd(ipv4_src, hostmask(iface)), network_address(iface))

(* lines 159-160 *)
src_ipv4_nat(ipv4_src) ==
    AddrOr(AddrAnd(ipv4_src, NFVIP_hostmask), NFVIP_network_address)

----------------------------------------------------------------------------
(* Packets, as the packet library parses them (lines 123-124, 127, 150, 153).
   vlan_vid is 0 on an untagged frame and OFPVID_PRESENT + id on a tagged one. *)

TcpPacket(eth_src, eth_dst, vlan_vid, ip_src, ip_dst, sport, dport) ==
    [eth_src |-> eth_src, eth_dst |-> eth_dst, vlan_vid |-> vlan_vid,
     eth_type |-> ETH_TYPE_IP, ip_src |-> ip_src, ip_dst |-> ip_dst,
     ip_proto |-> IPPROTO_TCP, tcp_src |-> sport, tcp_dst |-> dport,
     arp_op |-> 0, arp_src_mac |-> 0, arp_dst_mac |-> 0,
     arp_src_ip |-> NoAddr, arp_dst_ip |-> NoAddr]

UdpPacket(eth_src, eth_dst, vlan_vid, ip_src, ip_dst) ==
    [eth_src |-> eth_src, eth_dst |-> eth_dst, vlan_vid |-> vlan_vid,
     eth_type |-> ETH_TYPE_IP, ip_src |-> ip_src, ip_dst |-> ip_dst,
     ip_proto |-> IPPROTO_UDP, tcp_src |-> 0, tcp_dst |-> 0,
     arp_op |-> 0, arp_src_mac |-> 0, arp_dst_mac |-> 0,
     arp_src_ip |-> NoAddr, arp_dst_ip |-> NoAddr]

ArpPacket(eth_src, eth_dst, vlan_vid, opcode, src_mac, src_ip, dst_mac, dst_ip) ==
    [eth_src |-> eth_src, eth_dst |-> eth_dst, vlan_vid |-> vlan_vid,
     eth_type |-> ETH_TYPE_ARP, ip_src |-> NoAddr, ip_dst |-> NoAddr,
     ip_proto |-> 0, tcp_src |-> 0, tcp_dst |-> 0,
     arp_op |-> opcode, arp_src_mac |-> src_mac, arp_dst_mac |-> dst_mac,
     arp_src_ip |-> src_ip, arp_dst_ip |-> dst_ip]

OtherPacket(eth_src, eth_dst, vlan_vid, eth_type) ==
    [eth_src |-> eth_src, eth_dst |-> eth_dst, vlan_vid |-> vlan_vid,
     eth_type |-> eth_type, ip_src |-> NoAddr, ip_dst |-> NoAddr,
     ip_proto |-> 0, tcp_src |-> 0, tcp_dst |-> 0,
     arp_op |-> 0, arp_src_mac |-> 0, arp_dst_mac |-> 0,
     arp_src_ip |-> NoAddr, arp_dst_ip |-> NoAddr]

(* pkt.get_protocol(arp.arp), pkt.get_protocol(ipv4.ipv4), pkt.get_protocol(tcp.tcp) *)
get_arp(pkt) == pkt.eth_type = ETH_TYPE_ARP

get_ipv4(pkt) == pkt.eth_type = ETH_TYPE_IP

get_tcp(pkt) == pkt.eth_type = ETH_TYPE_IP /\ pkt.ip_proto = IPPROTO_TCP

----------------------------------------------------------------------------
(* OpenFlow messages the handlers build *)

(* One field of a parser.OFPMatch: a value and a mask (EXACT: no mask) *)
Field(f, v) == [field |-> f, value |-> v, mask |-> EXACT]

MaskedField(f, v, m) == [field |-> f, value |-> v, mask |-> m]

OFPActionOutput(port) == [type |-> "output", field |-> "port", value |-> port]

OFPActionSetField(f, v) == [type |-> "set_field", field |-> f, value |-> v]

OFPActionPopVlan == [type |-> "pop_vlan", field |-> "vlan", value |-> 0]

OFPActionPushVlan(ethertype) ==
    [type |-> "push_vlan", field |-> "vlan", value |-> ethertype]

OFPInstructionGotoTable(table_id) == [type |-> "goto_table", table_id |-> table_id]

(* line 59-60 *)
apply_actions(actions) == <<[type |-> "apply_actions", actions |-> actions]>>

(* line 62-63 *)
output_controller == apply_actions(<<OFPActionOutput(OFPP_CONTROLLER)>>)

(* parser.OFPFlowMod with the library's defaults for what the caller leaves out *)
OFPFlowMod(command, table_id, priority, match, idle_timeout, instructions, out_port, out_group) ==
    [msg |-> "flow_mod", command |-> command, table_id |-> table_id,
     priority |-> priority, match |-> match, idle_timeout |-> idle_timeout,
     instructions |-> instructions, out_port |-> out_port, out_group |-> out_group]

OFPPacketOut(buffer_id, in_port, actions, data) ==
    [msg |-> "packet_out", buffer_id |-> buffer_id, in_port |-> in_port,
     actions |-> actions, data |-> data]

----------------------------------------------------------------------------
(* switch_features_handler, lines 65-115: the list of mods it sends *)

(* mutant: the delete names every table *)
DropAllFlows_AllTables ==
    OFPFlowMod("delete", OFPTT_ALL, OFP_DEFAULT_PRIORITY, {}, 0, <<>>, OFPP_ANY, OFPG_ANY)

(* lines 70-75: no table_id is given, so the message carries the default, 0 *)
DropAllFlows ==
    OFPFlowMod("delete", 0, OFP_DEFAULT_PRIORITY, {}, 0, <<>>, OFPP_ANY, OFPG_ANY)

(* lines 77-83 *)
DefaultDeny ==
    [i \in 1..3 |-> OFPFlowMod("add", i - 1, 0, {}, 0, <<>>, 0, 0)]

(* mutant: IPv4 from the fake interface goes to the inbound table *)
DispatchRules_FakeToInbound ==
    << [table_id |-> 1,
        match |-> {Field("eth_type", ETH_TYPE_IP), Field("ip_proto", IPPROTO_TCP)},
        instructions |-> output_controller],
       [table_id |-> 2,
        match |-> {Field("eth_type", ETH_TYPE_ARP)},
        instructions |-> output_controller],
       [table_id |-> 0,
        match |-> {MaskedField("vlan_vid", 4096, 4096), Field("in_port", COPROPORT)},
        instructions |-> apply_actions(<<OFPActionPopVlan>>)
                            \o <<OFPInstructionGotoTable(1)>>],
       [table_id |-> 0,
        match |-> {Field("eth_type", ETH_TYPE_IP), Field("in_port", COPROPORT)},
        instructions |-> <<OFPInstructionGotoTable(1)>>],
       [table_id |-> 0,
        match |-> {Field("eth_type", ETH_TYPE_IP), Field("in_port", FAKEPORT)},
        instructions |-> <<OFPInstructionGotoTable(1)>>],
       [table_id |-> 0,
        match |-> {Field("eth_type", ETH_TYPE_ARP), Field("in_port", FAKEPORT)},
        instructions |-> <<OFPInstructionGotoTable(2)>>] >>

(* lines 89-107: (table_id, match, instructions) *)
DispatchRules ==
    << [table_id |-> 1,
        match |-> {Field("eth_type", ETH_TYPE_IP), Field("ip_proto", IPPROTO_TCP)},
        instructions |-> output_controller],
       [table_id |-> 2,
        match |-> {Field("eth_type", ETH_TYPE_ARP)},
        instructions |-> output_controller],
       [table_id |-> 0,
        match |-> {MaskedField("vlan_vid", 4096, 4096), Field("in_port", COPROPORT)},
        instructions |-> apply_actions(<<OFPActionPopVlan>>)
                            \o <<OFPInstructionGotoTable(1)>>],
       [table_id |-> 0,
        match |-> {Field("eth_type", ETH_TYPE_IP), Field("in_port", COPROPORT)},
        instructions |-> <<OFPInstructionGotoTable(1)>>],
       [table_id |-> 0,
        match |-> {Field("eth_type", ETH_TYPE_IP), Field("in_port", FAKEPORT)},
        instructions |-> <<OFPInstructionGotoTable(2)>>],
       [table_id |-> 0,
        match |-> {Field("eth_type", ETH_TYPE_ARP), Field("in_port", FAKEPORT)},
        instructions |-> <<OFPInstructionGotoTable(2)>>] >>

(* lines 108-114 *)
DispatchMods ==
    [i \in 1..Len(DispatchRules) |->
        OFPFlowMod("add", DispatchRules[i].table_id, 1, DispatchRules[i].match, 0,
                   DispatchRules[i].instructions, 0, 0)]

(* mutant: the delete is sent after the default-deny rules *)
switch_features_mods_DeleteLate == DefaultDeny \o <<DropAllFlows>> \o DispatchMods

(* line 68-115: mods, in the order appended *)
switch_features_mods == <<DropAllFlows>> \o DefaultDeny \o DispatchMods

----------------------------------------------------------------------------
(* _packet_in_handler, lines 117-201: the list of mods it sends *)

(* mutant: the reply repeats the request's addresses without swapping them *)
ArpReplyMod_NotSwapped(arp_req) ==
    OFPPacketOut(OFP_NO_BUFFER, OFPP_CONTROLLER, <<OFPActionOutput(FAKEPORT)>>,
                 ArpPacket(FAKECLIENTMAC, FAKESERVERMAC, 0, ARP_REPLY,
                           FAKECLIENTMAC, arp_req.arp_src_ip,
                           FAKESERVERMAC, arp_req.arp_dst_ip))

(* lines 133-148 *)
ArpReplyMod(arp_req) ==
    OFPPacketOut(OFP_NO_BUFFER, OFPP_CONTROLLER, <<OFPActionOutput(FAKEPORT)>>,
                 ArpPacket(FAKECLIENTMAC, FAKESERVERMAC, 0, ARP_REPLY,
                           FAKECLIENTMAC, arp_req.arp_dst_ip,
                           FAKESERVERMAC, arp_req.arp_src_ip))

(* mutant: the inbound entry leaves the source addresses as they came *)
InboundMod_KeepsSource(pkt) ==
    OFPFlowMod("add", 1, 2,
               {Field("eth_type", ETH_TYPE_IP), Field("eth_src", pkt.eth_src),
                Field("ipv4_dst", pkt.ip_dst), Field("ip_proto", IPPROTO_TCP),
                Field("tcp_dst", pkt.tcp_dst), Field("tcp_src", pkt.tcp_src)},
               IDLE,
               apply_actions(<<OFPActionSetField("eth_dst", FAKESERVERMAC),
                               OFPActionSetField("ipv4_dst", NFVIP.ip),
                               OFPActionOutput(FAKEPORT)>>),
               0, 0)

(* mutant: the inbound entry is installed at the dispatch rule's priority *)
InboundMod_Priority1(pkt) ==
    OFPFlowMod("add", 1, 1,
               {Field("eth_type", ETH_TYPE_IP), Field("eth_src", pkt.eth_src),
                Field("ipv4_dst", pkt.ip_dst), Field("ip_proto", IPPROTO_TCP),
                Field("tcp_dst", pkt.tcp_dst), Field("tcp_src", pkt.tcp_src)},
               IDLE,
               apply_actions(<<OFPActionSetField("eth_src", FAKECLIENTMAC),
                               OFPActionSetField("eth_dst", FAKESERVERMAC),
                               OFPActionSetField("ipv4_src", src_ipv4_nat(pkt.ip_src)),
                               OFPActionSetField("ipv4_dst", NFVIP.ip),
                               OFPActionOutput(FAKEPORT)>>),
               0, 0)

(* lines 161-179 *)
InboundMod(pkt) ==
    OFPFlowMod("add", 1, 2,
               {Field("eth_type", ETH_TYPE_IP), Field("eth_src", pkt.eth_src),
                Field("ipv4_dst", pkt.ip_dst), Field("ip_proto", IPPROTO_TCP),
                Field("tcp_dst", pkt.tcp_dst), Field("tcp_src", pkt.tcp_src)},
               IDLE,
               apply_actions(<<OFPActionSetField("eth_src", FAKECLIENTMAC),
                               OFPActionSetField("eth_dst", FAKESERVERMAC),
                               OFPActionSetField("ipv4_src", src_ipv4_nat(pkt.ip_src)),
                               OFPActionSetField("ipv4_dst", NFVIP.ip),
                               OFPActionOutput(FAKEPORT)>>),
               0, 0)

(* mutant: the outbound entry does not swap the MAC addresses *)
OutboundMod_MacsNotSwapped(pkt) ==
    OFPFlowMod("add", 2, 2,
               {Field("eth_type", ETH_TYPE_IP),
                Field("ipv4_dst", src_ipv4_nat(pkt.ip_src)),
                Field("ip_proto", IPPROTO_TCP),
                Field("tcp_src", pkt.tcp_dst), Field("tcp_dst", pkt.tcp_src)},
               IDLE,
               apply_actions(<<OFPActionSetField("eth_src", pkt.eth_src),
                               OFPActionSetField("eth_dst", pkt.eth_dst),
                               OFPActionSetField("ipv4_src", pkt.ip_dst),
                               OFPActionSetField("ipv4_dst", pkt.ip_src),
                               OFPActionPushVlan(ETH_TYPE_8021Q),
                               OFPActionSetField("vlan_vid", BitOr(VLAN, OFPVID_PRESENT)),
                               OFPActionOutput(COPROPORT)>>),
               0, 0)

(* mutant: the outbound entry matches the ports as the request carried them *)
OutboundMod_PortsNotSwapped(pkt) ==
    OFPFlowMod("add", 2, 2,
               {Field("eth_type", ETH_TYPE_IP),
                Field("ipv4_dst", src_ipv4_nat(pkt.ip_src)),
                Field("ip_proto", IPPROTO_TCP),
                Field("tcp_src", pkt.tcp_src), Field("tcp_dst", pkt.tcp_dst)},
               IDLE,
               apply_actions(<<OFPActionSetField("eth_src", pkt.eth_dst),
                               OFPActionSetField("eth_dst", pkt.eth_src),
                               OFPActionSetField("ipv4_src", pkt.ip_dst),
                               OFPActionSetField("ipv4_dst", pkt.ip_src),
                               OFPActionPushVlan(ETH_TYPE_8021Q),
                               OFPActionSetField("vlan_vid", BitOr(VLAN, OFPVID_PRESENT)),
                               OFPActionOutput(COPROPORT)>>),
               0, 0)

(* lines 180-200 *)
OutboundMod(pkt) ==
    OFPFlowMod("add", 2, 2,
               {Field("eth_type", ETH_TYPE_IP),
                Field("ipv4_dst", src_ipv4_nat(pkt.ip_src)),
                Field("ip_proto", IPPROTO_TCP),
                Field("tcp_src", pkt.tcp_dst), Field("tcp_dst", pkt.tcp_src)},
               IDLE,
               apply_actions(<<OFPActionSetField("eth_src", pkt.eth_dst),
                               OFPActionSetField("eth_dst", pkt.eth_src),
                               OFPActionSetField("ipv4_src", pkt.ip_dst),
                               OFPActionSetField("ipv4_dst", pkt.ip_src),
                               OFPActionPushVlan(ETH_TYPE_8021Q),
                               OFPActionSetField("vlan_vid", BitOr(VLAN, OFPVID_PRESENT)),
                               OFPActionOutput(COPROPORT)>>),
               0, 0)

(* lines 126-148: the mods gathered on the fake port *)
FakePortMods(in_port, pkt) ==
    IF in_port = FAKEPORT /\ get_arp(pkt) /\ pkt.arp_op = ARP_REQUEST
    THEN <<ArpReplyMod(pkt)>>
    ELSE <<>>

(* mutant: the return of lines 154-155 is missing *)
packet_in_mods_NoTcpCheck(in_port, pkt) ==
    IF in_port = FAKEPORT /\ ~get_arp(pkt) THEN <<>>
    ELSE IF in_port = COPROPORT /\ ~get_ipv4(pkt) THEN <<>>
    ELSE IF in_port = COPROPORT
         THEN FakePortMods(in_port, pkt) \o <<InboundMod(pkt), OutboundMod(pkt)>>
         ELSE FakePortMods(in_port, pkt)

(* lines 118-201; the early returns of lines 129, 152, 155 send nothing *)
packet_in_mods(in_port, pkt) ==
    IF in_port = FAKEPORT /\ ~get_arp(pkt) THEN <<>>
    ELSE IF in_port = COPROPORT /\ ~get_ipv4(pkt) THEN <<>>
    ELSE IF in_port = COPROPORT /\ ~get_tcp(pkt) THEN <<>>
    ELSE IF in_port = COPROPORT
         THEN FakePortMods(in_port, pkt) \o <<InboundMod(pkt), OutboundMod(pkt)>>
         ELSE FakePortMods(in_port, pkt)

----------------------------------------------------------------------------
(* The switch: what datapath.send_msg (lines 55-57) does to the flow tables.
   flows is the bag of installed flow entries of tables 0, 1 and 2. *)

FlowEntry(mod) ==
    [table_id |-> mod.table_id, priority |-> mod.priority, match |-> mod.match,
     idle_timeout |-> mod.idle_timeout, instructions |-> mod.instructions]

Entries(fl) == BagToSet(fl)

BagOf(fl, S) == [e \in S |-> fl[e]]

SameMatch(e, mod) ==
    /\ e.table_id = mod.table_id
    /\ e.priority = mod.priority
    /\ e.match = mod.match

OutputsTo(e, port) ==
    \E i \in 1..Len(e.instructions) :
        /\ e.instructions[i].type = "apply_actions"
        /\ \E j \in 1..Len(e.instructions[i].actions) :
              /\ e.instructions[i].actions[j].type = "output"
              /\ e.instructions[i].actions[j].value = port

(* OFPFC_DELETE (not strict): the entries of the table the message names that
   the match covers, filtered by out_port and out_group *)
InDeleteScope(e, mod) ==
    /\ mod.table_id = OFPTT_ALL \/ e.table_id = mod.table_id
    /\ mod.match \subseteq e.match
    /\ mod.out_port = OFPP_ANY \/ OutputsTo(e, mod.out_port)
    /\ mod.out_group = OFPG_ANY

(* mutant: an ADD never replaces, the tables keep both entries *)
AddFlow_NoReplace(fl, mod) == fl (+) SetToBag({FlowEntry(mod)})

(* mutant: an ADD replaces only an entry equal to it in every field *)
AddFlow_ReplaceIdentical(fl, mod) ==
    BagOf(fl, {e \in Entries(fl) : e # FlowEntry(mod)}) (+) SetToBag({FlowEntry(mod)})

(* OFPFC_ADD: an entry with the same table, priority and match is replaced *)
AddFlow(fl, mod) ==
    BagOf(fl, {e \in Entries(fl) : ~SameMatch(e, mod)}) (+) SetToBag({FlowEntry(mod)})

DeleteFlows(fl, mod) ==
    BagOf(fl, {e \in Entries(fl) : ~InDeleteScope(e, mod)})

ApplyFlowMod(fl, mod) ==
    IF mod.msg # "flow_mod" THEN fl
    ELSE IF mod.command = "add" THEN AddFlow(fl, mod)
    ELSE DeleteFlows(fl, mod)

(* send_mods, lines 55-57: the messages reach the switch in the order sent *)
RECURSIVE send_mods(_, _)
send_mods(fl, mods) ==
    IF mods = <<>> THEN fl
    ELSE send_mods(ApplyFlowMod(fl, Head(mods)), Tail(mods))

----------------------------------------------------------------------------
(* The switch's data path: actions, matching, the table pipeline *)

ApplyAction(st, a) ==
    IF a.type = "output"
    THEN [st EXCEPT !.outs = @ \cup {[port |-> a.value, pkt |-> st.pkt]}]
    ELSE IF a.type = "pop_vlan" THEN [st EXCEPT !.pkt.vlan_vid = 0]
    ELSE IF a.type = "push_vlan" THEN [st EXCEPT !.pkt.vlan_vid = OFPVID_PRESENT]
    ELSE IF a.field = "eth_src" THEN [st EXCEPT !.pkt.eth_src = a.value]
    ELSE IF a.field = "eth_dst" THEN [st EXCEPT !.pkt.eth_dst = a.value]
    ELSE IF a.field = "ipv4_src" THEN [st EXCEPT !.pkt.ip_src = a.value]
    ELSE IF a.field = "ipv4_dst" THEN [st EXCEPT !.pkt.ip_dst = a.value]
    ELSE IF a.field = "vlan_vid" THEN [st EXCEPT !.pkt.vlan_vid = a.value]
    ELSE st

RECURSIVE ApplyActions(_, _)
ApplyActions(st, actions) ==
    IF actions = <<>> THEN st
    ELSE ApplyActions(ApplyAction(st, Head(actions)), Tail(actions))

NoTable == -1

(* One entry's instructions on a packet: the rewritten packet, the packets
   output, the table to go to (NoTable: the pipeline ends) *)
RECURSIVE ExecInstructions(_, _)
ExecInstructions(st, instructions) ==
    IF instructions = <<>> THEN st
    ELSE LET ins == Head(instructions)
             nxt == IF ins.type = "apply_actions"
                    THEN ApplyActions(st, ins.actions)
                    ELSE [st EXCEPT !.goto = ins.table_id]
         IN ExecInstructions(nxt, Tail(instructions))

(* A field of a match exists on a packet only with its prerequisites *)
HasField(f, pkt) ==
    IF f \in {"ip_proto", "ipv4_src", "ipv4_dst"} THEN pkt.eth_type = ETH_TYPE_IP
    ELSE IF f \in {"tcp_src", "tcp_dst"}
         THEN pkt.eth_type = ETH_TYPE_IP /\ pkt.ip_proto = IPPROTO_TCP
         ELSE TRUE

PktField(f, in_port, pkt) ==
    IF f = "in_port" THEN in_port
    ELSE IF f = "eth_type" THEN pkt.eth_type
    ELSE IF f = "eth_src" THEN pkt.eth_src
    ELSE IF f = "eth_dst" THEN pkt.eth_dst
    ELSE IF f = "vlan_vid" THEN pkt.vlan_vid
    ELSE IF f = "ip_proto" THEN pkt.ip_proto
    ELSE IF f = "ipv4_src" THEN pkt.ip_src
    ELSE IF f = "ipv4_dst" THEN pkt.ip_dst
    ELSE IF f = "tcp_src" THEN pkt.tcp_src
    ELSE pkt.tcp_dst

Matches(match, in_port, pkt) ==
    \A m \in match :
        /\ HasField(m.field, pkt)
        /\ IF m.mask = EXACT
           THEN PktField(m.field, in_port, pkt) = m.value
           ELSE BitAnd(PktField(m.field, in_port, pkt), m.mask) = m.value

(* The entries of a table that match with the highest priority; which of
   several the switch takes is not defined *)
Lookup(fl, table_id, in_port, pkt) ==
    LET hit == {e \in Entries(fl) :
                   e.table_id = table_id /\ Matches(e.match, in_port, pkt)}
    IN {e \in hit : \A o \in hit : o.priority <= e.priority}

(* The possible results of a packet entering a table: each the set of
   packets output, [port, pkt]; a table miss drops the packet *)
RECURSIVE Pipeline(_, _, _, _)
Pipeline(fl, table_id, in_port, pkt) ==
    LET hit == Lookup(fl, table_id, in_port, pkt)
    IN IF hit = {} THEN {{}}
       ELSE UNION {
            LET r == ExecInstructions([pkt |-> pkt, outs |-> {}, goto |-> NoTable],
                                      e.instructions)
            IN IF r.goto = NoTable THEN {r.outs}
               ELSE {r.outs \cup o : o \in Pipeline(fl, r.goto, in_port, r.pkt)}
            : e \in hit}

(* OFPPacketOut: the switch runs the message's actions on its data *)
RECURSIVE PacketOuts(_)
PacketOuts(mods) ==
    IF mods = <<>> THEN {}
    ELSE (IF Head(mods).msg = "packet_out"
          THEN ApplyActions([pkt |-> Head(mods).data, outs |-> {}, goto |-> NoTable],
                            Head(mods).actions).outs
          ELSE {})
         \cup PacketOuts(Tail(mods))

----------------------------------------------------------------------------
(* The environment: hosts of the real segment behind the coprocessor port,
   the fake server behind the fake port, and the frames they send *)

Hosts ==
    { [mac |-> 1, ip |-> <<10, 0, 0, 42>>],
      [mac |-> 2, ip |-> <<10, 0, 1, 43>>] }

Gateways == {10}

DstAddrs == {<<10, 0, 0, 1>>, <<10, 0, 0, 2>>}

SrcPorts == {5000}

DstPorts == {80}

Tags == {0, BitOr(VLAN, OFPVID_PRESENT)}

Ports == {COPROPORT, FAKEPORT, 3}

HostTcpPackets ==
    {TcpPacket(h.mac, g, t, h.ip, d, sp, dp) :
        h \in Hosts, g \in Gateways, t \in Tags, d \in DstAddrs,
        sp \in SrcPorts, dp \in DstPorts}

ServerTcpPackets ==
    {TcpPacket(FAKESERVERMAC, FAKECLIENTMAC, 0, NFVIP.ip, src_ipv4_nat(h.ip), dp, sp) :
        h \in Hosts, sp \in SrcPorts, dp \in DstPorts}

ArpPackets ==
    {ArpPacket(FAKESERVERMAC, FAKECLIENTMAC, 0, op, FAKESERVERMAC, NFVIP.ip,
               0, src_ipv4_nat(h.ip)) :
        op \in {ARP_REQUEST, ARP_REPLY}, h \in {x \in Hosts : x.mac = 1}}

HostOtherPackets ==
    {UdpPacket(h.mac, g, 0, h.ip, d) :
        h \in {x \in Hosts : x.mac = 1}, g \in Gateways, d \in {NFVIP.ip}}
    \cup {OtherPacket(h.mac, g, 0, ETH_TYPE_8021Q + 1) :
        h \in {x \in Hosts : x.mac = 1}, g \in Gateways}
    \cup {ArpPacket(h.mac, g, 0, ARP_REQUEST, h.mac, h.ip, 0, d) :
        h \in {x \in Hosts : x.mac = 1}, g \in Gateways, d \in {NFVIP.ip}}

ServerOtherPackets ==
    {UdpPacket(FAKESERVERMAC, FAKECLIENTMAC, 0, NFVIP.ip, src_ipv4_nat(h.ip)) :
        h \in {x \in Hosts : x.mac = 1}}

(* What arrives where: [in_port, pkt] *)
Arrival(in_port, pkt) == [in_port |-> in_port, pkt |-> pkt]

Arrivals ==
    {Arrival(COPROPORT, p) : p \in HostTcpPackets \cup HostOtherPackets}
    \cup {Arrival(FAKEPORT, p) :
            p \in ServerTcpPackets \cup ArpPackets \cup ServerOtherPackets}
    \cup {Arrival(p, q) : p \in Ports \ {COPROPORT, FAKEPORT},
            q \in {x \in HostTcpPackets : x.eth_src = 1 /\ x.vlan_vid = 0}
                  \cup {x \in ArpPackets : x.arp_op = ARP_REQUEST}}

NoPacket == OtherPacket(0, 0, 0, 0)

(* The interfaces NFVIP is configured as, and the real addresses mapped *)
PrefixLens == {12, 20, 24, 32}

Interfaces == {[ip |-> NFVIP.ip, prefixlen |-> n] : n \in PrefixLens}

RealAddrs ==
    { <<10, 0, 0, 42>>, <<10, 0, 1, 42>>, <<10, 0, 0, 43>>, <<10, 0, 1, 43>>,
      <<172, 16, 0, 42>>, <<192, 168, 101, 42>> }

(* One configuration, the addresses given to the mapping, its results *)
Mapping(iface, addrs, nats) == [iface |-> iface, addrs |-> addrs, nats |-> nats]

NotMapped == Mapping(NFVIP, <<>>, <<>>)

Event(type, in_port, pkt) == [type |-> type, in_port |-> in_port, pkt |-> pkt]

Learned(fl) == {e \in Entries(fl) : e.idle_timeout > 0}

Static(fl) == {e \in Entries(fl) : e.idle_timeout = 0}

WithinBounds(fl) == BagCardinality(BagOf(fl, Learned(fl))) <= 2 * MaxFlows

----------------------------------------------------------------------------
(* The state machine *)

Init ==
    /\ flows = EmptyBag
    /\ dispatcher = "config"
    /\ ev = Event("none", 0, NoPacket)
    /\ prev = "none"
    /\ sent = <<>>
    /\ out = {}
    /\ chan = <<>>
    /\ mapped = NotMapped

(* EventOFPSwitchFeatures in CONFIG_DISPATCHER, lines 65-115; the datapath
   then enters MAIN_DISPATCHER.  A reconnect raises the event again. *)
switch_features_handler ==
    /\ flows' = send_mods(flows, switch_features_mods)
    /\ sent' = switch_features_mods
    /\ out' = PacketOuts(switch_features_mods)
    /\ dispatcher' = "main"
    /\ ev' = Event("switch_features", 0, NoPacket)
    /\ prev' = ev.type
    /\ UNCHANGED <<chan, mapped>>

(* EventOFPPacketIn in MAIN_DISPATCHER, lines 117-201 *)
packet_in_handler(in_port, pkt) ==
    LET mods == packet_in_mods(in_port, pkt)
    IN /\ dispatcher = "main"
       /\ flows' = send_mods(flows, mods)
       /\ WithinBounds(flows')
       /\ sent' = mods
       /\ out' = PacketOuts(mods)
       /\ ev' = Event("packet_in", in_port, pkt)
       /\ prev' = ev.type
       /\ UNCHANGED <<dispatcher, chan, mapped>>

(* A frame arrives at a switch port and runs through the tables from table 0;
   an output to the controller is a packet-in, handled as above *)
SwitchPacket(in_port, pkt) ==
    \E res \in Pipeline(flows, 0, in_port, pkt) :
        LET punted == {o \in res : o.port = OFPP_CONTROLLER}
            mods == IF punted = {} THEN <<>>
                    ELSE packet_in_mods(in_port, (CHOOSE o \in punted : TRUE).pkt)
        IN /\ punted # {} => dispatcher = "main"
           /\ flows' = send_mods(flows, mods)
           /\ WithinBounds(flows')
           /\ sent' = mods
           /\ out' = res \cup PacketOuts(mods)
           /\ ev' = Event("packet", in_port, pkt)
           /\ prev' = ev.type
           /\ UNCHANGED <<dispatcher, chan, mapped>>

(* The switch removes an entry whose idle_timeout has run out (lines 178, 199);
   the controller is not told and does nothing *)
IdleTimeout ==
    \E e \in Learned(flows) :
        /\ flows' = flows (-) SetToBag({e})
        /\ sent' = <<>>
        /\ out' = {}
        /\ ev' = Event("idle_timeout", 0, NoPacket)
        /\ prev' = ev.type
        /\ UNCHANGED <<dispatcher, chan, mapped>>

Next ==
    \/ switch_features_handler
    \/ \E a \in Arrivals : packet_in_handler(a.in_port, a.pkt)
    \/ \E a \in Arrivals : SwitchPacket(a.in_port, a.pkt)
    \/ IdleTimeout

Spec == Init /\ [][Next]_vars

----------------------------------------------------------------------------
(* The same program with the commands in flight.  datapath.send_msg (line 57)
   only queues a message; the switch applies it later, so the commands of
   two handlers can reach the tables interleaved, and the switch can refuse
   a flow_mod (the table is full), which leaves it unapplied.  chan holds, for
   each handler started, the packet-in it handled, its commands not yet at
   the switch, and those of its commands the switch did not apply. *)

Handler(in_port, pkt, mods) ==
    [in_port |-> in_port, pkt |-> pkt, mods |-> mods, lost |-> {}]

AsyncArrivals ==
    {Arrival(COPROPORT, p) : p \in {x \in HostTcpPackets : x.vlan_vid = 0}}
    \cup {Arrival(FAKEPORT, p) :
            p \in ServerTcpPackets \cup {x \in ArpPackets : x.arp_op = ARP_REQUEST}}

(* lines 65-115, once, when the datapath connects *)
AsyncConnect ==
    /\ dispatcher = "config"
    /\ switch_features_handler

(* A frame runs through the tables; on a packet-in the handler (lines
   117-201) queues its commands *)
AsyncPacket(in_port, pkt) ==
    \E res \in Pipeline(flows, 0, in_port, pkt) :
        LET punted == {o \in res : o.port = OFPP_CONTROLLER}
            mods == IF punted = {} THEN <<>>
                    ELSE packet_in_mods(in_port, (CHOOSE o \in punted : TRUE).pkt)
        IN /\ dispatcher = "main"
           /\ mods # <<>> => Len(chan) < MaxHandlers
           /\ chan' = IF mods = <<>> THEN chan
                      ELSE Append(chan, Handler(in_port, (CHOOSE o \in punted : TRUE).pkt, mods))
           /\ sent' = mods
           /\ out' = res
           /\ ev' = Event("packet", in_port, pkt)
           /\ UNCHANGED <<flows, dispatcher, prev, mapped>>

(* The switch applies the oldest command of one handler still in flight *)
Deliver(i) ==
    /\ chan[i].mods # <<>>
    /\ flows' = ApplyFlowMod(flows, Head(chan[i].mods))
    /\ out' = PacketOuts(<<Head(chan[i].mods)>>)
    /\ chan' = [chan EXCEPT ![i].mods = Tail(@)]
    /\ sent' = <<>>
    /\ ev' = Event("deliver", chan[i].in_port, chan[i].pkt)
    /\ UNCHANGED <<dispatcher, prev, mapped>>

(* The switch does not apply a flow_mod; pipette handles no error message *)
Lose(i) ==
    /\ chan[i].mods # <<>>
    /\ Head(chan[i].mods).msg = "flow_mod"
    /\ chan' = [chan EXCEPT ![i].mods = Tail(@), ![i].lost = @ \cup {Head(chan[i].mods)}]
    /\ sent' = <<>>
    /\ out' = {}
    /\ ev' = Event("lose", chan[i].in_port, chan[i].pkt)
    /\ UNCHANGED <<flows, dispatcher, prev, mapped>>

NextAsync ==
    \/ AsyncConnect
    \/ \E a \in AsyncArrivals : AsyncPacket(a.in_port, a.pkt)
    \/ \E i \in 1..Len(chan) : Deliver(i)
    \/ \E i \in 1..Len(chan) : Lose(i)

SpecAsync == Init /\ [][NextAsync]_vars

----------------------------------------------------------------------------
(* Claims *)

(* The packet-ins the controller handled in the last step: the event itself,
   or what the pipeline sent to the controller *)
HandledBy(e, o) ==
    IF e.type = "packet_in" THEN {Arrival(e.in_port, e.pkt)}
    ELSE IF e.type = "packet"
         THEN {Arrival(e.in_port, x.pkt) : x \in {y \in o : y.port = OFPP_CONTROLLER}}
         ELSE {}

HandledPacketIns == HandledBy(ev, out)

IsTcpFromCopro(a) ==
    /\ a.in_port = COPROPORT
    /\ a.pkt.eth_type = ETH_TYPE_IP
    /\ a.pkt.ip_proto = IPPROTO_TCP

IsArpRequestFromFake(a) ==
    /\ a.in_port = FAKEPORT
    /\ a.pkt.eth_type = ETH_TYPE_ARP
    /\ a.pkt.arp_op = ARP_REQUEST

Actions(mod) == mod.instructions[1].actions

Rewritten(pkt, actions) ==
    ApplyActions([pkt |-> pkt, outs |-> {}, goto |-> NoTable], actions)

Rule(table_id, priority, match, idle_timeout, instructions) ==
    [table_id |-> table_id, priority |-> priority, match |-> match,
     idle_timeout |-> idle_timeout, instructions |-> instructions]

ToController == <<[type |-> "apply_actions", actions |-> <<OFPActionOutput(OFPP_CONTROLLER)>>]>>

Goto(t) == <<[type |-> "goto_table", table_id |-> t]>>

(* The static pipeline of the specification: 3 default-deny, 6 dispatch rules *)
StaticPipeline ==
    << Rule(0, 0, {}, 0, <<>>),
       Rule(1, 0, {}, 0, <<>>),
       Rule(2, 0, {}, 0, <<>>),
       Rule(1, 1, {Field("eth_type", ETH_TYPE_IP), Field("ip_proto", IPPROTO_TCP)}, 0,
            ToController),
       Rule(2, 1, {Field("eth_type", ETH_TYPE_ARP)}, 0, ToController),
       Rule(0, 1, {MaskedField("vlan_vid", OFPVID_PRESENT, OFPVID_PRESENT),
                   Field("in_port", COPROPORT)}, 0,
            <<[type |-> "apply_actions", actions |-> <<OFPActionPopVlan>>]>> \o Goto(1)),
       Rule(0, 1, {Field("eth_type", ETH_TYPE_IP), Field("in_port", COPROPORT)}, 0,
            Goto(1)),
       Rule(0, 1, {Field("eth_type", ETH_TYPE_IP), Field("in_port", FAKEPORT)}, 0,
            Goto(2)),
       Rule(0, 1, {Field("eth_type", ETH_TYPE_ARP), Field("in_port", FAKEPORT)}, 0,
            Goto(2)) >>

StaticPipelineSet == {StaticPipeline[i] : i \in 1..Len(StaticPipeline)}

(* C1: after a switch-connect event is handled, in any reachable switch state,
   the flow tables hold exactly the 9 static pipeline rules and no other rule.
   The code's delete names table 0 only, so learned rules of tables 1 and 2
   survive a reconnect: TLC finds this violated. *)
C1_ConnectLeavesOnlyPipeline ==
    ev.type = "switch_features" => flows = SetToBag(StaticPipelineSet)

(* C2: every switch-connect event emits exactly 10 commands: one delete with a
   wildcard match and any out-port and out-group, then the priority-0 ADDs with
   no instructions for tables 0, 1, 2, then the six priority-1 dispatch ADDs in
   the order of the contract; no ADD precedes the delete. *)
C2_BootstrapCommands ==
    ev.type = "switch_features" =>
        /\ Len(sent) = 10
        /\ sent[1].msg = "flow_mod" /\ sent[1].command = "delete"
        /\ sent[1].match = {}
        /\ sent[1].out_port = OFPP_ANY /\ sent[1].out_group = OFPG_ANY
        /\ \A i \in 2..10 :
              /\ sent[i].msg = "flow_mod" /\ sent[i].command = "add"
              /\ FlowEntry(sent[i]) = StaticPipeline[i - 1]

C2_Witness ==
    /\ ev.type = "switch_features"
    /\ prev = "packet_in"
    /\ Len(sent) = 10
    /\ Learned(flows) # {}

(* C3: handling the switch-connect event twice in a row leaves the flow tables
   exactly as handling it once did. *)
C3_BootstrapIdempotent ==
    [][(ev.type = "switch_features" /\ ev'.type = "switch_features")
          => flows' = flows]_vars

C3_Witness ==
    /\ ev.type = "switch_features"
    /\ prev = "switch_features"
    /\ Learned(flows) # {}
    /\ Static(flows) = StaticPipelineSet

(* C4: a packet-in on the coprocessor port that parses as IPv4 and TCP makes the
   handler emit exactly two commands, both ADDs of priority 2 with idle_timeout
   IDLE: the forward rule into table 1 and the reverse rule into table 2, with
   the matches and actions of the contract. *)
C4_FlowLearnerCommands ==
    \A a \in HandledPacketIns :
        IsTcpFromCopro(a) =>
            /\ Len(sent) = 2
            /\ \A i \in 1..2 : sent[i].msg = "flow_mod" /\ sent[i].command = "add"
            /\ FlowEntry(sent[1]) =
                 Rule(1, 2,
                      {Field("eth_type", ETH_TYPE_IP), Field("eth_src", a.pkt.eth_src),
                       Field("ipv4_dst", a.pkt.ip_dst), Field("ip_proto", IPPROTO_TCP),
                       Field("tcp_dst", a.pkt.tcp_dst), Field("tcp_src", a.pkt.tcp_src)},
                      IDLE,
                      <<[type |-> "apply_actions", actions |->
                         <<OFPActionSetField("eth_src", FAKECLIENTMAC),
                           OFPActionSetField("eth_dst", FAKESERVERMAC),
                           OFPActionSetField("ipv4_src", src_ipv4_nat(a.pkt.ip_src)),
                           OFPActionSetField("ipv4_dst", NFVIP.ip),
                           OFPActionOutput(FAKEPORT)>>]>>)
            /\ FlowEntry(sent[2]) =
                 Rule(2, 2,
                      {Field("eth_type", ETH_TYPE_IP),
                       Field("ipv4_dst", src_ipv4_nat(a.pkt.ip_src)),
                       Field("ip_proto", IPPROTO_TCP),
                       Field("tcp_src", a.pkt.tcp_dst), Field("tcp_dst", a.pkt.tcp_src)},
                      IDLE,
                      <<[type |-> "apply_actions", actions |->
                         <<OFPActionSetField("eth_src", a.pkt.eth_dst),
                           OFPActionSetField("eth_dst", a.pkt.eth_src),
                           OFPActionSetField("ipv4_src", a.pkt.ip_dst),
                           OFPActionSetField("ipv4_dst", a.pkt.ip_src),
                           OFPActionPushVlan(ETH_TYPE_8021Q),
                           OFPActionSetField("vlan_vid", VLAN + OFPVID_PRESENT),
                           OFPActionOutput(COPROPORT)>>]>>)

C4_Witness ==
    /\ ev.type = "packet_in"
    /\ IsTcpFromCopro(Arrival(ev.in_port, ev.pkt))
    /\ ev.pkt.eth_src # ev.pkt.eth_dst
    /\ ev.pkt.ip_src # src_ipv4_nat(ev.pkt.ip_src)
    /\ Len(sent) = 2

(* C5: once a flow's rules are installed, a later packet of that flow arriving
   on the coprocessor port while the table-1 rule is still installed is
   rewritten by that priority-2 rule and output on the fake port; it causes no
   packet-in, no controller command and no change of the tables. *)
C5_FastPath ==
    [][(/\ ev'.type = "packet"
        /\ ev'.in_port = COPROPORT
        /\ \E e \in Learned(flows) :
              e.table_id = 1 /\ Matches(e.match, COPROPORT, ev'.pkt))
       => (/\ sent' = <<>>
           /\ flows' = flows
           /\ \A o \in out' : o.port = FAKEPORT
           /\ \E e \in Learned(flows) :
                 /\ e.table_id = 1 /\ e.priority = 2
                 /\ Matches(e.match, COPROPORT, ev'.pkt)
                 /\ \E q \in {ev'.pkt, [ev'.pkt EXCEPT !.vlan_vid = 0]} :
                       out' = Rewritten(q, e.instructions[1].actions).outs)]_vars

C5_Witness ==
    /\ ev.type = "packet"
    /\ prev = "packet"
    /\ ev.in_port = COPROPORT
    /\ ev.pkt.ip_proto = IPPROTO_TCP
    /\ sent = <<>>
    /\ \E o \in out : o.port = FAKEPORT /\ o.pkt.eth_src = FAKECLIENTMAC

(* C6: for a learned flow, the reverse rule matches (ipv4_dst, tcp_src, tcp_dst)
   = (the forward rule's rewritten ipv4_src, the original tcp_dst, the original
   tcp_src); the fake server's reply to the forward-rewritten packet matches
   the reverse rule, and the reverse rewrite gives it the original addresses
   and ports, swapped. *)
C6_ForwardReverseSymmetry ==
    \A a \in HandledPacketIns :
        IsTcpFromCopro(a) =>
            /\ Len(sent) = 2
            /\ LET p == a.pkt
                   fwd == Rewritten(p, Actions(sent[1])).pkt
                   reply == [fwd EXCEPT !.eth_src = fwd.eth_dst, !.eth_dst = fwd.eth_src,
                                        !.ip_src = fwd.ip_dst, !.ip_dst = fwd.ip_src,
                                        !.tcp_src = fwd.tcp_dst, !.tcp_dst = fwd.tcp_src]
                   back == Rewritten(reply, Actions(sent[2])).pkt
               IN /\ {m \in sent[2].match : m.field \in {"ipv4_dst", "tcp_src", "tcp_dst"}}
                       = {Field("ipv4_dst", fwd.ip_src), Field("tcp_src", p.tcp_dst),
                          Field("tcp_dst", p.tcp_src)}
                  /\ Matches(sent[2].match, FAKEPORT, reply)
                  /\ back.ip_src = p.ip_dst /\ back.ip_dst = p.ip_src
                  /\ back.eth_src = p.eth_dst /\ back.eth_dst = p.eth_src
                  /\ back.tcp_src = p.tcp_dst /\ back.tcp_dst = p.tcp_src

C6_Witness ==
    /\ ev.type = "packet"
    /\ \E a \in HandledPacketIns : IsTcpFromCopro(a) /\ a.pkt.tcp_src # a.pkt.tcp_dst
    /\ Len(sent) = 2
    /\ \E e \in Learned(flows) : e.table_id = 2 /\ FlowEntry(sent[2]) = e

(* The learned rules of a table that belong to the address pair of a host:
   forward rules rewriting that host's frames to its NAT address, reverse
   rules restoring the host's address from the NAT address *)
PairRules(h, table_id) ==
    {e \in Learned(flows) :
        /\ e.table_id = table_id
        /\ IF table_id = 1
           THEN /\ Field("eth_src", h.mac) \in e.match
                /\ \E i \in 1..Len(e.instructions[1].actions) :
                      e.instructions[1].actions[i] =
                          OFPActionSetField("ipv4_src", src_ipv4_nat(h.ip))
           ELSE /\ Field("ipv4_dst", src_ipv4_nat(h.ip)) \in e.match
                /\ \E i \in 1..Len(e.instructions[1].actions) :
                      e.instructions[1].actions[i] = OFPActionSetField("ipv4_dst", h.ip)}

(* C7 as stated: for every address pair (real host, NAT address) at most one
   learned rule in table 1 and at most one in table 2.  Violated: rules are
   per TCP flow, and one host with two flows has two forward rules. *)
C7_AtMostTwoPerAddressPair ==
    \A h \in Hosts :
        /\ BagCardinality(BagOf(flows, PairRules(h, 1))) <= 1
        /\ BagCardinality(BagOf(flows, PairRules(h, 2))) <= 1

(* C7 amended: at most one learned rule per table and match, that is one
   forward rule per (source MAC, destination address, TCP ports) and one
   reverse rule per (NAT address, TCP ports). *)
C7_AtMostOnePerMatch ==
    \A e \in Learned(flows) :
        /\ flows[e] = 1
        /\ \A f \in Learned(flows) :
              (f.table_id = e.table_id /\ f.match = e.match) => f = e

C7_Witness ==
    \E h \in Hosts :
        /\ Cardinality(PairRules(h, 1)) = 2
        /\ Cardinality(PairRules(h, 2)) = 1
        /\ ev.type = "packet_in"

(* C8: an ARP request with src_ip S and dst_ip D in a packet-in on the fake
   port makes the handler emit exactly one command, a packet-out whose only
   action is output on the fake port and whose payload is the ARP reply
   src_ip D, dst_ip S, src_mac FAKECLIENTMAC, dst_mac FAKESERVERMAC in an
   Ethernet frame from FAKECLIENTMAC to FAKESERVERMAC; the tables are left
   alone and nothing is output on the coprocessor port. *)
C8_ArpProxyReply ==
    [][\A a \in HandledBy(ev', out') :
          IsArpRequestFromFake(a) =>
              LET reply == [eth_src |-> FAKECLIENTMAC, eth_dst |-> FAKESERVERMAC,
                            vlan_vid |-> 0, eth_type |-> ETH_TYPE_ARP,
                            ip_src |-> NoAddr, ip_dst |-> NoAddr, ip_proto |-> 0,
                            tcp_src |-> 0, tcp_dst |-> 0, arp_op |-> ARP_REPLY,
                            arp_src_mac |-> FAKECLIENTMAC, arp_dst_mac |-> FAKESERVERMAC,
                            arp_src_ip |-> a.pkt.arp_dst_ip,
                            arp_dst_ip |-> a.pkt.arp_src_ip]
              IN /\ Len(sent') = 1
                 /\ sent'[1].msg = "packet_out"
                 /\ sent'[1].actions = <<OFPActionOutput(FAKEPORT)>>
                 /\ sent'[1].data = reply
                 /\ flows' = flows
                 /\ {o \in out' : o.port # OFPP_CONTROLLER}
                       = {[port |-> FAKEPORT, pkt |-> reply]}]_vars

C8_Witness ==
    /\ ev.type = "packet_in"
    /\ IsArpRequestFromFake(Arrival(ev.in_port, ev.pkt))
    /\ ev.pkt.arp_src_ip # ev.pkt.arp_dst_ip
    /\ Len(sent) = 1
    /\ \E o \in out : o.port = FAKEPORT /\ o.pkt.arp_op = ARP_REPLY

(* C9: a packet-in on the coprocessor port that is not IPv4 or not TCP, one on
   the fake port that is not ARP or is ARP with another opcode than request,
   and one on any other port each produce no command and leave the flow
   tables unchanged. *)
NonMatching(a) ==
    \/ a.in_port = COPROPORT
         /\ ~(a.pkt.eth_type = ETH_TYPE_IP /\ a.pkt.ip_proto = IPPROTO_TCP)
    \/ a.in_port = FAKEPORT
         /\ ~(a.pkt.eth_type = ETH_TYPE_ARP /\ a.pkt.arp_op = ARP_REQUEST)
    \/ a.in_port \notin {COPROPORT, FAKEPORT}

C9_NonMatchingIgnored ==
    [][\A a \in HandledBy(ev', out') :
          NonMatching(a) =>
              /\ sent' = <<>>
              /\ flows' = flows
              /\ \A o \in out' : o.port = OFPP_CONTROLLER]_vars

C9_Witness ==
    /\ ev.type = "packet_in"
    /\ ev.in_port = COPROPORT
    /\ ev.pkt.eth_type = ETH_TYPE_IP
    /\ ev.pkt.ip_proto = IPPROTO_UDP
    /\ sent = <<>>
    /\ Learned(flows) # {}

(* C10: no command of the control logic deletes a learned priority-2 rule of
   table 1 or 2: across every handler run each installed learned match stays
   installed, and no delete the handler sends has a learned rule in its scope.
   Learned rules leave the tables by idle timeout only. *)
C10_HandlersNeverDeleteLearned ==
    [][ev'.type \in {"switch_features", "packet_in", "packet"} =>
          /\ \A e \in Learned(flows) :
                \E f \in Learned(flows') :
                    /\ f.table_id = e.table_id
                    /\ f.priority = e.priority
                    /\ f.match = e.match
          /\ \A i \in 1..Len(sent') :
                (sent'[i].msg = "flow_mod" /\ sent'[i].command = "delete") =>
                    \A e \in Learned(flows) : ~InDeleteScope(e, sent'[i])]_vars

C10_Witness ==
    /\ ev.type = "switch_features"
    /\ sent[1].command = "delete"
    /\ \E e \in Learned(flows) : e.table_id = 1 /\ e.priority = 2
    /\ \E e \in Learned(flows) : e.table_id = 2 /\ e.priority = 2

----------------------------------------------------------------------------
(* The address mapping of lines 157-160 on its own: NFVIP is one of
   Interfaces, two real addresses are mapped one after the other *)

InitNat ==
    /\ flows = EmptyBag
    /\ dispatcher = "config"
    /\ ev = Event("none", 0, NoPacket)
    /\ prev = "none"
    /\ sent = <<>>
    /\ out = {}
    /\ chan = <<>>
    /\ \E iface \in Interfaces, a \in RealAddrs, b \in RealAddrs :
          mapped = Mapping(iface, <<a, b>>, <<>>)

MapAddress ==
    /\ Len(mapped.nats) < Len(mapped.addrs)
    /\ mapped' = [mapped EXCEPT !.nats =
                     Append(@, src_ipv4_nat_of(mapped.iface, mapped.addrs[Len(@) + 1]))]
    /\ UNCHANGED <<flows, dispatcher, ev, prev, sent, out, chan>>

NextNat == MapAddress

SpecNat == InitNat /\ [][NextNat]_vars

(* C15: every frame the switch emits on the fake port, an ARP reply sent as
   packet-out or a frame forwarded by a learned table-1 rule, has the source
   MAC FAKECLIENTMAC; a forwarded TCP frame has its source address inside the
   fake subnet and the fake interface's address as destination; no real
   host's MAC or source address shows on the fake port. *)
C15_FakeSegmentIsolation ==
    \A o \in out :
        o.port = FAKEPORT =>
            /\ o.pkt.eth_src = FAKECLIENTMAC
            /\ o.pkt.eth_src \notin {h.mac : h \in Hosts}
            /\ o.pkt.eth_type \in {ETH_TYPE_IP, ETH_TYPE_ARP}
            /\ o.pkt.eth_type = ETH_TYPE_IP =>
                  /\ o.pkt.ip_proto = IPPROTO_TCP
                  /\ AddrAnd(o.pkt.ip_src, netmask(NFVIP)) = network_address(NFVIP)
                  /\ o.pkt.ip_src \notin {h.ip : h \in Hosts}
                  /\ o.pkt.ip_dst = NFVIP.ip
            /\ o.pkt.eth_type = ETH_TYPE_ARP => o.pkt.arp_src_mac = FAKECLIENTMAC

C15_Witness ==
    /\ ev.type = "packet"
    /\ ev.in_port = COPROPORT
    /\ sent = <<>>
    /\ \E o \in out :
          /\ o.port = FAKEPORT
          /\ o.pkt.eth_type = ETH_TYPE_IP
          /\ o.pkt.tcp_src = ev.pkt.tcp_src
          /\ o.pkt.ip_src = src_ipv4_nat(ev.pkt.ip_src)

(* C16: a VLAN-tagged IPv4/TCP frame arriving on the coprocessor port has
   its tag popped in table 0, so what table 1 sends to the controller or a
   learned forward rule outputs on the fake port is untagged. *)
C16_VlanStripped ==
    (ev.type = "packet" /\ ev.in_port = COPROPORT /\ IsTcpFromCopro(ev)) =>
        \A o \in out :
            o.port \in {OFPP_CONTROLLER, FAKEPORT} => o.pkt.vlan_vid = 0

(* The learned table-2 entries an arriving frame matches *)
ReverseRulesFor(fl, in_port, pkt) ==
    {e \in Learned(fl) : e.table_id = 2 /\ Matches(e.match, in_port, pkt)}

(* C17: once the datapath is bootstrapped, an IPv4 frame arriving on the fake
   port that matches no learned table-2 rule is dropped: no packet-in, no
   command, no rule, no output; the handler given such a packet-in sends
   nothing; and a frame is output on the coprocessor port only by a learned
   table-2 rule that matches it. *)
C17_DefaultDenyTowardReal ==
    [][/\ (/\ dispatcher = "main"
            /\ ev'.type = "packet"
            /\ ev'.in_port = FAKEPORT
            /\ ev'.pkt.eth_type = ETH_TYPE_IP
            /\ ReverseRulesFor(flows, ev'.in_port, ev'.pkt) = {})
           => (out' = {} /\ sent' = <<>> /\ flows' = flows)
       /\ (/\ ev'.type = "packet_in"
            /\ ev'.in_port = FAKEPORT
            /\ ev'.pkt.eth_type = ETH_TYPE_IP)
           => (out' = {} /\ sent' = <<>> /\ flows' = flows)
       /\ (\E o \in out' : o.port = COPROPORT)
           => /\ ev'.type = "packet"
              /\ ev'.in_port = FAKEPORT
              /\ \E e \in ReverseRulesFor(flows, ev'.in_port, ev'.pkt) :
                    /\ OutputsTo(e, COPROPORT)
                    /\ \E a \in Arrivals :
                          /\ IsTcpFromCopro(a)
                          /\ e = FlowEntry(OutboundMod(a.pkt))]_vars

C17_Witness ==
    /\ ev.type = "packet"
    /\ ev.in_port = FAKEPORT
    /\ ev.pkt.eth_type = ETH_TYPE_IP
    /\ ev.pkt.ip_proto = IPPROTO_TCP
    /\ dispatcher = "main"
    /\ prev = "packet"
    /\ \E e \in Learned(flows) : e.table_id = 2
    /\ ReverseRulesFor(flows, ev.in_port, ev.pkt) = {}
    /\ out = {}

(* The coprocessor-port TCP frames whose forward rule is installed *)
ForwardInstalled(fl) ==
    {a.pkt : a \in {x \in Arrivals :
                      /\ IsTcpFromCopro(x)
                      /\ FlowEntry(InboundMod(x.pkt)) \in Entries(fl)}}

(* C18: the hosts have pairwise distinct host bits; for every forward rule
   installed in table 1 for a flow (M, A, B, p -> q), the table-2 rule that
   matches the flow's replies (ipv4_dst = nat(A), tcp_src = q, tcp_dst = p)
   sets ip_src to B, ip_dst to A and eth_dst to M. *)
C18_NoCrossFlowMisdelivery ==
    \A pkt \in ForwardInstalled(flows) :
        \A e \in Learned(flows) :
            (e.table_id = 2 /\ e.match = OutboundMod(pkt).match) =>
                LET new == Rewritten(pkt, e.instructions[1].actions).pkt
                IN /\ new.ip_src = pkt.ip_dst
                   /\ new.ip_dst = pkt.ip_src
                   /\ new.eth_dst = pkt.eth_src

(* C19: with learned rules expiring one by one, whenever the forward rule of
   a flow is installed in table 1, a reverse rule matching the flow's replies
   is installed in table 2. *)
C19_ForwardHasReverse ==
    \A pkt \in ForwardInstalled(flows) :
        \E e \in Learned(flows) :
            e.table_id = 2 /\ e.match = OutboundMod(pkt).match

----------------------------------------------------------------------------
(* Claims on the commands in flight (SpecAsync) *)

(* The tables once the datapath has connected and nothing was learned *)
Bootstrapped == send_mods(EmptyBag, switch_features_mods)

(* The handlers started so far all handled the same TCP packet-in from the
   coprocessor port and none of their commands was refused *)
OnlyDuplicates ==
    /\ Len(chan) >= 1
    /\ \A i \in 1..Len(chan) :
          /\ chan[i].in_port = chan[1].in_port
          /\ chan[i].pkt = chan[1].pkt
          /\ chan[i].lost = {}
    /\ IsTcpFromCopro(Arrival(chan[1].in_port, chan[1].pkt))

(* C11: handlers for duplicates of one coprocessor-port TCP packet-in, their
   install commands applied in any interleaving, leave the tables as one
   handler does: as soon as one of them has all its commands applied, and
   again when all have, the tables are the bootstrap pipeline plus that
   flow's one forward and one reverse rule. *)
C11_DuplicatesBenign ==
    (OnlyDuplicates /\ \E i \in 1..Len(chan) : chan[i].mods = <<>>)
    => flows = send_mods(Bootstrapped, packet_in_mods(chan[1].in_port, chan[1].pkt))

C11_Witness ==
    /\ OnlyDuplicates
    /\ Len(chan) = 2
    /\ \A i \in 1..Len(chan) : chan[i].mods = <<>>
    /\ ev.type = "deliver"
    /\ BagCardinality(BagOf(flows, Learned(flows))) = 2

(* Both rules of the flow of a coprocessor-port TCP frame are installed *)
BothInstalled(fl, pkt) ==
    /\ FlowEntry(InboundMod(pkt)) \in Entries(fl)
    /\ FlowEntry(OutboundMod(pkt)) \in Entries(fl)

(* C12: when an install command of a flow was not applied by the switch and
   the flow's two rules are not both installed, a further frame of that flow
   arriving on the coprocessor port is sent to the controller as a packet-in. *)
C12_LostInstallStillPunted ==
    [][(/\ ev'.type = "packet"
        /\ IsTcpFromCopro(ev')
        /\ \E i \in 1..Len(chan) :
              /\ chan[i].in_port = COPROPORT
              /\ chan[i].pkt = ev'.pkt
              /\ chan[i].lost # {}
        /\ ~BothInstalled(flows, ev'.pkt))
       => \E o \in out' : o.port = OFPP_CONTROLLER]_vars

----------------------------------------------------------------------------
(* Claims on the address mapping (SpecNat) *)

(* C13: for every real address x and interface, the NAT address is
   (x AND hostmask) OR network address: it lies in the interface's subnet and
   carries the host bits of x, so 10.0.0.42 under 192.168.101.1/24 gives
   192.168.101.42; and with the configured NFVIP it is the address both
   installed rules use. *)
C13_AddressMapping ==
    \A i \in 1..Len(mapped.nats) :
        LET x == mapped.addrs[i]
            iface == mapped.iface
            nat == mapped.nats[i]
            pkt == TcpPacket(1, 10, 0, x, <<10, 0, 0, 1>>, 5000, 80)
        IN /\ AddrAnd(nat, netmask(iface)) = network_address(iface)
           /\ AddrAnd(nat, hostmask(iface)) = AddrAnd(x, hostmask(iface))
           /\ \A k \in 1..4 : nat[k] \in 0..255
           /\ (iface = [ip |-> <<192, 168, 101, 1>>, prefixlen |-> 24] /\ x = <<10, 0, 0, 42>>)
                 => nat = <<192, 168, 101, 42>>
           /\ iface = NFVIP =>
                 /\ nat = src_ipv4_nat(x)
                 /\ OFPActionSetField("ipv4_src", nat) \in
                       {Actions(InboundMod(pkt))[j] : j \in 1..Len(Actions(InboundMod(pkt)))}
                 /\ Field("ipv4_dst", nat) \in OutboundMod(pkt).match

C13_Witness ==
    /\ Len(mapped.nats) >= 1
    /\ mapped.iface = [ip |-> <<192, 168, 101, 1>>, prefixlen |-> 24]
    /\ mapped.addrs[1] = <<10, 0, 0, 42>>
    /\ mapped.nats[1] = <<192, 168, 101, 42>>

(* C14: the mapping is a function of its input, and two different real
   addresses get the same NAT address exactly when their host bits under the
   hostmask are the same; two different addresses of one real subnet no wider
   than the hostmask never collide. *)
C14_CollisionIffSameHostBits ==
    Len(mapped.nats) = 2 =>
        LET a == mapped.addrs[1]
            b == mapped.addrs[2]
            iface == mapped.iface
        IN /\ a = b => mapped.nats[1] = mapped.nats[2]
           /\ a # b =>
                 (mapped.nats[1] = mapped.nats[2]
                    <=> AddrAnd(a, hostmask(iface)) = AddrAnd(b, hostmask(iface)))
           /\ (a # b /\ AddrAnd(a, netmask(iface)) = AddrAnd(b, netmask(iface)))
                 => mapped.nats[1] # mapped.nats[2]

C14_Witness ==
    /\ Len(mapped.nats) = 2
    /\ mapped.iface = NFVIP
    /\ mapped.addrs = << <<10, 0, 0, 42>>, <<10, 0, 1, 42>> >>
    /\ mapped.nats[1] = mapped.nats[2]

====
